---- MODULE Spec2Model ----
(***************************************************************************)
(* Model of src/src/einsum.h: the Einsum<ComputeType, IntType,             *)
(* kMaxNumModes_> constructor (equation parsing, implicit output modes,    *)
(* operand pass-through, output extent lookup), its const accessors and    *)
(* execute(), and the process-wide cuTENSOR handle of GetCuTensorHandle(). *)
(*                                                                         *)
(* Characters are their ASCII codes, strings are sequences of characters.  *)
(* C++ indices are 0-based; a C++ index i is position i + 1 of a sequence. *)
(***************************************************************************)
EXTENDS Integers, Sequences, FiniteSets, TLC

\* Template parameter kMaxNumModes_ (einsum.h:83), instantiated small.
kMaxNumModes == 2

\* Longest operand / output substring (in mode symbols) the inputs contain.
MaxLen == 5

\* Threads calling GetCuTensorHandle() and calls each of them makes.
NumThreads == 3
MaxCalls == 2

\* ASCII codes of the characters the constructor looks for.
Space == 32
Comma == 44
Dash == 45
Dot == 46
Gt == 62
\* std::string::npos, only ever compared for equality (einsum.h:101-105).
npos == -1

\* The mode symbols the equations are written with: 'i', 'j', 'k'.
ModeSymbols == <<105, 106, 107>>
ModeI == ModeSymbols[1]
ModeJ == ModeSymbols[2]
ModeK == ModeSymbols[3]

-----------------------------------------------------------------------------
(* Generic helpers *)

Min(S) == CHOOSE x \in S : \A y \in S : x <= y

Range(s) == {s[p] : p \in 1..Len(s)}

\* 0-based std::string::find(pat): first position where pat occurs, or npos.
Find(equation, pat) ==
    LET hits == {p \in 1..(Len(equation) - Len(pat) + 1) :
                    SubSeq(equation, p, p + Len(pat) - 1) = pat}
    IN  IF hits = {} THEN npos ELSE Min(hits) - 1

\* The extraction loops of lines 120-145:
\*   for (int i = start; i < end && numModes < kMaxNumModes_ + 2; ++i)
\*       if (equation.at(i) != ' ') mode[numModes++] = equation.at(i);
RECURSIVE ExtractModes(_, _, _, _)
ExtractModes(equation, i, end, mode) ==
    IF i < end /\ Len(mode) < kMaxNumModes + 2
    THEN ExtractModes(equation, i + 1, end,
                      IF equation[i + 1] # Space
                      THEN Append(mode, equation[i + 1])
                      ELSE mode)
    ELSE mode

\* The inner search loop of copyModesIf (lines 172-179).
IsContracted(mode, modeB) == \E j \in 1..Len(modeB) : modeB[j] = mode

\* copyModesIf (lines 165-191): append to modeC every mode of modeA that is
\* not found in modeB; throws as soon as numModesC exceeds kMaxNumModes_.
RECURSIVE copyModesIf(_, _, _, _)
copyModesIf(modeA, i, modeB, modeC) ==
    IF i > Len(modeA) THEN [modeC |-> modeC, threw |-> FALSE]
    ELSE IF ~IsContracted(modeA[i], modeB)
         THEN LET c == Append(modeC, modeA[i])
              IN  IF Len(c) > kMaxNumModes
                  THEN [modeC |-> c, threw |-> TRUE]
                  ELSE copyModesIf(modeA, i + 1, modeB, c)
         ELSE copyModesIf(modeA, i + 1, modeB, modeC)

\* std::sort of the first numModesC_ chars (line 202), ascending.
RECURSIVE Insert(_, _)
Insert(s, c) ==
    IF s = << >> THEN <<c>>
    ELSE IF c <= Head(s) THEN <<c>> \o s
    ELSE <<Head(s)>> \o Insert(Tail(s), c)

RECURSIVE InsertionSort(_)
InsertionSort(s) ==
    IF s = << >> THEN << >> ELSE Insert(InsertionSort(Tail(s)), Head(s))

\* (variant: the sort is left out)
SortModesOmitted(s) == s
SortModes(s) == InsertionSort(s)

\* First position j with modes[j] = mode, 0 when there is none
\* (the loops of lines 231-239 and 240-247, which break at the first hit).
FirstIndex(modes, mode) ==
    LET hits == {j \in 1..Len(modes) : modes[j] = mode}
    IN  IF hits = {} THEN 0 ELSE Min(hits)

\* The count comparisons of lines 147 and 151.
\* (variant: only a substring longer than the shape is refused)
LengthMismatchLax(numModes, numModes_) == numModes > numModes_
LengthMismatch(numModes, numModes_) == numModes # numModes_

\* The rank checks of lines 154 and 158.
TooManyModes(numModes_) == numModes_ > kMaxNumModes

-----------------------------------------------------------------------------
(* The Einsum object and the arguments it was constructed from *)

VARIABLES
    equation, A_shape, A_strides, B_shape, B_strides,   \* constructor arguments
    pc,             \* "start", "constructed", "threw" (exception), "crashed"
    error,          \* what() of the exception the constructor threw
    numModesA_, numModesB_, numModesC_, isInitialized_,
    modesA_, modesB_, modesC_,
    extentA_, extentB_, extentC_,
    stridesA_, stridesB_,
    oobWriteC,      \* modesC_/extentC_ were written at an index >= kMaxNumModes_
    oobReadStrides, \* A_strides/B_strides were read past their size()
    unassignedC,    \* output positions whose extentC_ entry was never assigned
    ret,            \* the last member call and what it returned or threw
    shapeSeen,      \* every result getOutputShape() has produced so far, and
                    \* whether execute() had been called before it
    executed,       \* execute() has been called on the object
    \* GetCuTensorHandle()
    guard,          \* state of the function-local static: "uninit", "busy", "done"
    tpc,            \* per thread: "idle", "wait", "create", "attach"
    calls,          \* per thread: GetCuTensorHandle() calls started
    got,            \* per thread: handle addresses its calls returned
    createCount,    \* times CreateCuTensorHandle (cutensorInit) ran
    cacheEnv        \* getenv("CUTENSOR_CACHE") is "1"

objVars == <<numModesA_, numModesB_, numModesC_, isInitialized_,
             modesA_, modesB_, modesC_, extentA_, extentB_, extentC_,
             stridesA_, stridesB_>>
argVars == <<equation, A_shape, A_strides, B_shape, B_strides>>
ghostVars == <<oobWriteC, oobReadStrides, unassignedC>>
callVars == <<ret, shapeSeen, executed>>
handleVars == <<guard, tpc, calls, got, createCount, cacheEnv>>
einsumVars == <<argVars, pc, error, objVars, ghostVars, callVars>>
vars == <<einsumVars, handleVars>>

\* Values an indeterminate read (uninitialized array element, read past the
\* end of a vector, overwritten neighbour member) can produce.
Junk == {-1, 3}

\* The outcomes of the constructor's undefined behaviour.
UBOutcomes == [crash : BOOLEAN, clobber : BOOLEAN, junk : Junk]
NoUB == [crash |-> FALSE, clobber |-> FALSE, junk |-> -1]

\* The members before the constructor body has stored anything (lines 93-96).
Unbuilt ==
    [pc |-> "start", error |-> "",
     numModesA_ |-> 0, numModesB_ |-> 0, numModesC_ |-> 0,
     isInitialized_ |-> FALSE,
     modesA_ |-> << >>, modesB_ |-> << >>, modesC_ |-> << >>,
     extentA_ |-> << >>, extentB_ |-> << >>, extentC_ |-> << >>,
     stridesA_ |-> << >>, stridesB_ |-> << >>,
     oobWriteC |-> FALSE, oobReadStrides |-> FALSE, unassignedC |-> {}]

\* The constructor left by an exception: no object exists.
Throw(msg) == [Unbuilt EXCEPT !.pc = "threw", !.error = msg]

\* operand pass-through (lines 212-224): element i of the caller's strides,
\* an indeterminate value when the vector is shorter.
CopyStrides(n, strides, junk) ==
    [p \in 1..n |-> IF p <= Len(strides) THEN strides[p] ELSE junk]

\* An array whose first element was overwritten by the out-of-range stores
\* into the member declared before it (lines 412-416).
Clobbered(arr, junk) ==
    [p \in 1..Len(arr) |-> IF p = 1 THEN junk ELSE arr[p]]

\* Einsum::Einsum (lines 88-251).
Einsum(eq, a_shape, a_strides, b_shape, b_strides, ub) ==
    LET size == Len(eq)
        arrow_pos == Find(eq, <<Dash, Gt>>)
        comma_pos == Find(eq, <<Comma>>)
        dots == Find(eq, <<Dot, Dot, Dot>>)
        isImplicit == arrow_pos = npos
        usesB == comma_pos # npos
        nA_ == Len(a_shape)
        nB_ == IF usesB THEN Len(b_shape) ELSE 0
        a_start == 0
        a_end == IF isImplicit
                 THEN (IF comma_pos = npos THEN size ELSE comma_pos)
                 ELSE (IF comma_pos = npos THEN arrow_pos ELSE comma_pos)
        b_start == IF usesB THEN comma_pos + 1 ELSE 0
        b_end == IF usesB THEN (IF isImplicit THEN size ELSE arrow_pos) ELSE 0
        c_start == IF isImplicit THEN size ELSE arrow_pos + 2
        c_end == size
        modeA == ExtractModes(eq, a_start, a_end, << >>)
        modeB == ExtractModes(eq, b_start, b_end, << >>)
        modeC == ExtractModes(eq, c_start, c_end, << >>)
        fromA == copyModesIf(modeA, 1, modeB, << >>)
        fromB == copyModesIf(modeB, 1, modeA, fromA.modeC)
        redirectModeC == IF isImplicit THEN SortModes(fromB.modeC) ELSE modeC
        nC_ == Len(redirectModeC)
        oobRead == Len(a_strides) < nA_ \/ Len(b_strides) < nB_
        oobWrite == nC_ > kMaxNumModes
        hit == oobWrite /\ ub.clobber
        kept == IF nC_ < kMaxNumModes THEN nC_ ELSE kMaxNumModes
        \* the extent stored for output position p (lines 230-247);
        \* positions past the arrays are stored after the neighbours were hit
        extA(p) == IF hit /\ p > kMaxNumModes
                   THEN Clobbered(a_shape, ub.junk) ELSE a_shape
        Lookup(p) ==
            LET jA == FirstIndex(modeA, redirectModeC[p])
                jB == FirstIndex(modeB, redirectModeC[p])
            IN  IF jA > 0 THEN extA(p)[jA]
                ELSE IF jB > 0 THEN b_shape[jB]
                ELSE ub.junk
        unresolved == {p \in 1..nC_ :
                          FirstIndex(modeA, redirectModeC[p]) = 0
                          /\ FirstIndex(modeB, redirectModeC[p]) = 0}
    IN  IF dots # npos
        THEN Throw("Broadcast einsum with ... is not supported.")
        ELSE IF LengthMismatch(Len(modeA), nA_)
        THEN Throw("modes substring for first operand and shape don't match.")
        ELSE IF LengthMismatch(Len(modeB), nB_)
        THEN Throw("modes substring for second operand and shape don't match.")
        ELSE IF TooManyModes(nA_)
        THEN Throw("too many modes in first operand.")
        ELSE IF TooManyModes(nB_)
        THEN Throw("too many modes in second operand.")
        ELSE IF isImplicit /\ (fromA.threw \/ fromB.threw)
        THEN Throw("too many modes in output tensor.")
        ELSE IF oobRead /\ ub.crash
        THEN [Unbuilt EXCEPT !.pc = "crashed", !.oobReadStrides = TRUE]
        ELSE
        [pc |-> "constructed", error |-> "",
         numModesA_ |-> nA_, numModesB_ |-> nB_, numModesC_ |-> nC_,
         isInitialized_ |-> TRUE,
         modesA_ |-> modeA, modesB_ |-> modeB,
         modesC_ |-> SubSeq(redirectModeC, 1, kept),
         extentA_ |-> IF hit THEN Clobbered(a_shape, ub.junk) ELSE a_shape,
         extentB_ |-> SubSeq(b_shape, 1, nB_),
         extentC_ |-> [p \in 1..kept |-> Lookup(p)],
         stridesA_ |-> IF hit
                       THEN Clobbered(CopyStrides(nA_, a_strides, ub.junk), ub.junk)
                       ELSE CopyStrides(nA_, a_strides, ub.junk),
         stridesB_ |-> CopyStrides(nB_, b_strides, ub.junk),
         oobWriteC |-> oobWrite, oobReadStrides |-> oobRead,
         unassignedC |-> unresolved]

-----------------------------------------------------------------------------
(* Constructor arguments *)

\* Every mode string of at most kMaxNumModes symbols over the given symbols.
ShortStrings(symbols) ==
    UNION {[1..n -> symbols] : n \in 0..kMaxNumModes}

\* "ijkij...": n symbols, for the strings longer than an operand may be.
LongString(n) ==
    [p \in 1..n |-> ModeSymbols[((p - 1) % Len(ModeSymbols)) + 1]]
LongStrings == {LongString(n) : n \in (kMaxNumModes + 1)..MaxLen}

\* Strings with spaces, which the parser skips.
SpacedStrings == {<<Space>>, <<Space, ModeJ, Space, ModeI>>}

AStrings == ShortStrings({ModeI, ModeJ}) \cup LongStrings \cup SpacedStrings
                \cup {<<Dot, Dot, Dot, ModeI>>}
BStrings == ShortStrings({ModeJ, ModeK}) \cup LongStrings \cup SpacedStrings
CStrings == ShortStrings({ModeI, ModeJ, ModeK}) \cup LongStrings
                \cup SpacedStrings

\* operandA[,operandB][->output]  (the equation grammar)
Equations ==
    {a \o tb \o tc :
        a \in AStrings,
        tb \in {<< >>} \cup {<<Comma>> \o b : b \in BStrings},
        tc \in {<< >>} \cup {<<Dash, Gt>> \o c : c \in CStrings}}

\* Shapes and strides with pairwise different entries, so that a position of
\* an operand is recognised by its extent and its stride.
ShapeA(n) == [p \in 1..n |-> p + 1]
ShapeB(n) == [p \in 1..n |-> p + 10]
StridesA(n) == [p \in 1..n |-> p + 20]
StridesB(n) == [p \in 1..n |-> p + 30]

\* The call forms the default arguments of lines 88-92 allow: the equation
\* and A_shape, then optionally A_strides, B_shape, B_strides; each of the
\* `omitted` trailing arguments is emptyVec.  n and m are the lengths of the
\* shapes.
Call(omitted, n, m) ==
    [a |-> ShapeA(n),
     as |-> IF omitted <= 2 THEN StridesA(n) ELSE << >>,
     b |-> IF omitted <= 1 THEN ShapeB(m) ELSE << >>,
     bs |-> IF omitted = 0 THEN StridesB(m) ELSE << >>]

-----------------------------------------------------------------------------
(* Actions on the Einsum object *)

NoCall == [op |-> "none", status |-> "", value |-> << >>, backend |-> << >>]

InitObject ==
    /\ equation = << >> /\ A_shape = << >> /\ A_strides = << >>
    /\ B_shape = << >> /\ B_strides = << >>
    /\ pc = "start" /\ error = ""
    /\ numModesA_ = 0 /\ numModesB_ = 0 /\ numModesC_ = 0
    /\ isInitialized_ = FALSE
    /\ modesA_ = << >> /\ modesB_ = << >> /\ modesC_ = << >>
    /\ extentA_ = << >> /\ extentB_ = << >> /\ extentC_ = << >>
    /\ stridesA_ = << >> /\ stridesB_ = << >>
    /\ oobWriteC = FALSE /\ oobReadStrides = FALSE /\ unassignedC = {}
    /\ ret = NoCall /\ shapeSeen = {} /\ executed = FALSE

InitHandleIdle ==
    /\ guard = "uninit"
    /\ tpc = [t \in 1..NumThreads |-> "idle"]
    /\ calls = [t \in 1..NumThreads |-> 0]
    /\ got = [t \in 1..NumThreads |-> {}]
    /\ createCount = 0

Init == InitObject /\ InitHandleIdle /\ cacheEnv = FALSE

\* Store the outcome r of the constructor.
Built(r) ==
    /\ pc' = r.pc /\ error' = r.error
    /\ numModesA_' = r.numModesA_ /\ numModesB_' = r.numModesB_
    /\ numModesC_' = r.numModesC_ /\ isInitialized_' = r.isInitialized_
    /\ modesA_' = r.modesA_ /\ modesB_' = r.modesB_ /\ modesC_' = r.modesC_
    /\ extentA_' = r.extentA_ /\ extentB_' = r.extentB_
    /\ extentC_' = r.extentC_
    /\ stridesA_' = r.stridesA_ /\ stridesB_' = r.stridesB_
    /\ oobWriteC' = r.oobWriteC /\ oobReadStrides' = r.oobReadStrides
    /\ unassignedC' = r.unassignedC

\* Einsum e(equation, A_shape[, A_strides[, B_shape[, B_strides]]]).
Construct ==
    /\ pc = "start"
    /\ \E eq \in Equations, omitted \in 0..3, n \in 0..MaxLen,
          m \in 0..MaxLen :
        LET c == Call(omitted, n, m)
            r == Einsum(eq, c.a, c.as, c.b, c.bs, NoUB)
        IN  /\ omitted >= 2 => m = 0
            /\ equation' = eq
            /\ A_shape' = c.a /\ A_strides' = c.as
            /\ B_shape' = c.b /\ B_strides' = c.bs
            /\ IF r.oobWriteC \/ r.oobReadStrides \/ r.unassignedC # {}
               THEN \E ub \in UBOutcomes :
                        Built(Einsum(eq, c.a, c.as, c.b, c.bs, ub))
               ELSE Built(r)
    /\ UNCHANGED <<callVars, handleVars>>

\* array.at(i) for i < n (lines 261, 388, 394, 400): std::out_of_range as
\* soon as an index reaches the array size.
ReadArray(arr, n) ==
    IF n > kMaxNumModes
    THEN [status |-> "out_of_range", value |-> << >>]
    ELSE [status |-> "ok", value |-> SubSeq(arr, 1, n)]

\* Einsum::getOutputShape (lines 255-265).
getOutputShape ==
    IF ~isInitialized_ THEN [status |-> "ok", value |-> << >>]
    ELSE ReadArray(extentC_, numModesC_)

Returned(op, r, backend) ==
    ret' = [op |-> op, status |-> r.status, value |-> r.value,
            backend |-> backend]

GetOutputShape ==
    /\ pc = "constructed"
    /\ Returned("getOutputShape", getOutputShape, << >>)
    /\ shapeSeen' = shapeSeen \cup
            {[status |-> getOutputShape.status, value |-> getOutputShape.value,
              afterExecute |-> executed]}
    /\ UNCHANGED <<argVars, pc, error, objVars, ghostVars, executed, handleVars>>

\* Einsum::modesA, modesB, modesC (lines 385-402).
ModesA ==
    /\ pc = "constructed"
    /\ Returned("modesA", ReadArray(modesA_, numModesA_), << >>)
    /\ UNCHANGED <<argVars, pc, error, objVars, ghostVars, shapeSeen,
                   executed, handleVars>>

ModesB ==
    /\ pc = "constructed"
    /\ Returned("modesB", ReadArray(modesB_, numModesB_), << >>)
    /\ UNCHANGED <<argVars, pc, error, objVars, ghostVars, shapeSeen,
                   executed, handleVars>>

ModesC ==
    /\ pc = "constructed"
    /\ Returned("modesC", ReadArray(modesC_, numModesC_), << >>)
    /\ UNCHANGED <<argVars, pc, error, objVars, ghostVars, shapeSeen,
                   executed, handleVars>>

\* The backend calls of execute, in program order (lines 289-310, then
\* 318-368 or 375-379).
CommonCalls ==
    <<"cutensorInitTensorDescriptor", "cutensorInitTensorDescriptor",
      "cutensorGetAlignmentRequirement", "cutensorGetAlignmentRequirement">>
ContractionCalls ==
    <<"cutensorInitTensorDescriptor", "cutensorGetAlignmentRequirement",
      "cutensorInitContractionDescriptor", "cutensorInitContractionFind",
      "cutensorContractionFindSetAttribute",
      "cutensorContractionFindSetAttribute",
      "cutensorInitContractionPlan", "cutensorContraction">>
ReductionCalls == <<"cutensorReduction">>

\* The branch of line 315.
DispatchToContraction == numModesB_ > 0

\* Einsum::execute (lines 276-382); the failAt-th backend call returns a
\* status other than CUTENSOR_STATUS_SUCCESS (0: none does), which
\* HANDLE_ERROR turns into std::runtime_error.
execute(failAt) ==
    LET program == CommonCalls \o (IF DispatchToContraction
                                   THEN ContractionCalls ELSE ReductionCalls)
        fails == failAt \in 1..Len(program)
    IN  IF ~isInitialized_
        THEN [status |-> "false", value |-> << >>, backend |-> << >>]
        ELSE [status |-> IF fails THEN "BackendError" ELSE "true",
              value |-> << >>,
              backend |-> IF fails THEN SubSeq(program, 1, failAt) ELSE program]

\* Backend outcomes tried: every call succeeds, the first call fails, the
\* first call after the branch fails, the last call of the longer branch fails.
FailPoints ==
    {0, 1, Len(CommonCalls) + 1, Len(CommonCalls) + Len(ContractionCalls)}

\* (variant: a backend error marks the object as not initialized)
ExecuteInvalidatesOnError ==
    /\ pc = "constructed"
    /\ \E failAt \in FailPoints :
        /\ Returned("execute", execute(failAt), execute(failAt).backend)
        /\ isInitialized_' = (execute(failAt).status # "BackendError")
    /\ executed' = TRUE
    /\ UNCHANGED <<argVars, pc, error, numModesA_, numModesB_, numModesC_,
                   modesA_, modesB_, modesC_, extentA_, extentB_, extentC_,
                   stridesA_, stridesB_, ghostVars, shapeSeen, handleVars>>

Execute ==
    /\ pc = "constructed"
    /\ \E failAt \in FailPoints :
        Returned("execute", execute(failAt), execute(failAt).backend)
    /\ executed' = TRUE
    /\ UNCHANGED <<argVars, pc, error, objVars, ghostVars, shapeSeen, handleVars>>

Next ==
    \/ Construct
    \/ GetOutputShape
    \/ ModesA
    \/ ModesB
    \/ ModesC
    \/ Execute

Spec == Init /\ [][Next]_vars

-----------------------------------------------------------------------------
(* GetCuTensorHandle (lines 423-436): `static cutensorHandle_t handle =      *)
(* CreateCuTensorHandle();` is a function-local static.  Its initialization  *)
(* is guarded by the language: the first thread to arrive runs the           *)
(* initializer, threads arriving meanwhile block, and if the initializer     *)
(* exits by an exception the variable stays uninitialized and the            *)
(* initialization is tried again the next time control reaches the           *)
(* declaration.                                                              *)

Threads == 1..NumThreads

InitHandle == InitObject /\ InitHandleIdle /\ cacheEnv \in BOOLEAN

\* return &handle;  (line 435)
ReturnHandle(t) ==
    /\ got' = [got EXCEPT ![t] = @ \cup {"&handle"}]
    /\ tpc' = [tpc EXCEPT ![t] = "idle"]

\* Control reaches the declaration of line 434.
ReachDeclaration(t) ==
    IF guard = "done" THEN ReturnHandle(t) /\ UNCHANGED guard
    ELSE IF guard = "uninit"
    THEN guard' = "busy" /\ tpc' = [tpc EXCEPT ![t] = "create"]
         /\ UNCHANGED got
    ELSE tpc' = [tpc EXCEPT ![t] = "wait"] /\ UNCHANGED <<guard, got>>

\* A thread calls GetCuTensorHandle().
GetCuTensorHandle(t) ==
    /\ tpc[t] = "idle"
    /\ calls[t] < MaxCalls
    /\ calls' = [calls EXCEPT ![t] = @ + 1]
    /\ ReachDeclaration(t)
    /\ UNCHANGED <<createCount, cacheEnv, einsumVars>>

\* A thread blocked on the guard goes on once no initializer is running.
Wake(t) ==
    /\ tpc[t] = "wait"
    /\ guard # "busy"
    /\ ReachDeclaration(t)
    /\ UNCHANGED <<calls, createCount, cacheEnv, einsumVars>>

\* CreateCuTensorHandle up to the getenv test: cutensorInit(&handle)
\* (lines 424-426); without the cache the handle is returned at once.
CreateCuTensorHandle(t) ==
    /\ tpc[t] = "create"
    /\ createCount' = createCount + 1
    /\ IF cacheEnv
       THEN tpc' = [tpc EXCEPT ![t] = "attach"] /\ UNCHANGED <<guard, got>>
       ELSE guard' = "done" /\ ReturnHandle(t)
    /\ UNCHANGED <<calls, cacheEnv, einsumVars>>

\* cutensorHandleAttachPlanCachelines under HANDLE_ERROR (lines 427-428):
\* on success the static is initialized; on a failing status the exception
\* leaves GetCuTensorHandle and the static stays uninitialized.
AttachPlanCachelines(t) ==
    /\ tpc[t] = "attach"
    /\ \E status \in {"CUTENSOR_STATUS_SUCCESS", "failure"} :
        IF status = "CUTENSOR_STATUS_SUCCESS"
        THEN guard' = "done" /\ ReturnHandle(t)
        ELSE guard' = "uninit" /\ tpc' = [tpc EXCEPT ![t] = "idle"]
             /\ UNCHANGED got
    /\ UNCHANGED <<calls, createCount, cacheEnv, einsumVars>>

NextHandle ==
    \/ \E t \in Threads : GetCuTensorHandle(t)
    \/ \E t \in Threads : Wake(t)
    \/ \E t \in Threads : CreateCuTensorHandle(t)
    \/ \E t \in Threads : AttachPlanCachelines(t)

SpecHandle == InitHandle /\ [][NextHandle]_vars

-----------------------------------------------------------------------------
(* What the claims speak about *)

\* The non-space characters of a string.
NonSpace(s) == SelectSeq(s, LAMBDA c : c # Space)

HasComma == \E p \in 1..Len(equation) : equation[p] = Comma
ArrowAt == {p \in 1..(Len(equation) - 1) :
               equation[p] = Dash /\ equation[p + 1] = Gt}
HasArrow == ArrowAt # {}
CommaAt == {p \in 1..Len(equation) : equation[p] = Comma}

\* The equation without its "->output" part, and the operand substrings.
InputPart == IF HasArrow THEN SubSeq(equation, 1, Min(ArrowAt) - 1) ELSE equation
OperandA == NonSpace(IF HasComma THEN SubSeq(InputPart, 1, Min(CommaAt) - 1)
                     ELSE InputPart)
OperandB == NonSpace(IF HasComma
                     THEN SubSeq(InputPart, Min(CommaAt) + 1, Len(InputPart))
                     ELSE << >>)
OutputPart == NonSpace(SubSeq(equation, Min(ArrowAt) + 2, Len(equation)))

Count(s, c) == Cardinality({p \in 1..Len(s) : s[p] = c})

IsParseError ==
    error \in {"Broadcast einsum with ... is not supported.",
               "modes substring for first operand and shape don't match.",
               "modes substring for second operand and shape don't match.",
               "too many modes in first operand.",
               "too many modes in second operand.",
               "too many modes in output tensor."}

\* Symbols that appear in exactly one operand.
ExclusiveSymbols ==
    (Range(OperandA) \ Range(OperandB)) \cup (Range(OperandB) \ Range(OperandA))

\* Smallest position of symbol c in s (c occurs in s).
FirstPos(s, c) == Min({p \in 1..Len(s) : s[p] = c})

\* The output modes the equation asks for: the explicit output, or the
\* modes the constructor derived.
OutputModes == IF HasArrow THEN OutputPart ELSE modesC_

-----------------------------------------------------------------------------
(* Claims *)

\* C1 (as stated): for an equation without "->", modesC() is the strictly
\* ascending list of the symbols that appear in exactly one operand, each
\* exactly once.
C1_ImplicitOutputIsSortedSet ==
    (ret.op = "modesC" /\ ~HasArrow) =>
        /\ ret.status = "ok"
        /\ Range(ret.value) = ExclusiveSymbols
        /\ \A p \in 1..(Len(ret.value) - 1) : ret.value[p] < ret.value[p + 1]

\* C1 (amended): for an equation without "->", modesC() is in ascending
\* order, holds no symbol that appears in both operands, and holds every
\* symbol that appears in exactly one operand as many times as that operand
\* repeats it.
C1_ImplicitOutputIsSortedOccurrences ==
    (ret.op = "modesC" /\ ~HasArrow) =>
        /\ ret.status = "ok"
        /\ \A p \in 1..(Len(ret.value) - 1) : ret.value[p] <= ret.value[p + 1]
        /\ \A c \in Range(ret.value) \cup Range(OperandA) \cup Range(OperandB) :
              Count(ret.value, c) =
                  IF c \in ExclusiveSymbols
                  THEN Count(OperandA, c) + Count(OperandB, c)
                  ELSE 0

\* C1 witness: modesC() of a two-operand equation without "->" returned a
\* symbol twice, because one operand repeats it.
C1_Witness ==
    /\ ret.op = "modesC" /\ ~HasArrow /\ HasComma
    /\ \E c \in Range(ret.value) : Count(ret.value, c) = 2

\* C2: for an equation with "->", modesC() is exactly the non-space
\* characters after "->", same order, same length.
C2_ExplicitOutputVerbatim ==
    (ret.op = "modesC" /\ HasArrow) =>
        ret.status = "ok" /\ ret.value = OutputPart

\* C3: an explicit output with a symbol that is in neither operand makes the
\* construction fail: no object is initialized and no output extent is left
\* unassigned.
C3_UnresolvableOutputRejected ==
    (HasArrow /\ \E c \in Range(OutputPart) :
                    c \notin Range(OperandA) \cup Range(OperandB)) =>
        pc # "constructed" /\ ~isInitialized_ /\ unassignedC = {}

\* C4: execute calls cutensorContraction exactly when the equation has a
\* ',' and cutensorReduction exactly when it has none.
C4_DispatchOnComma ==
    ret.op = "execute" =>
        /\ "cutensorContraction" \in Range(ret.backend) => HasComma
        /\ "cutensorReduction" \in Range(ret.backend) => ~HasComma
        /\ ret.status = "true" =>
              Range(ret.backend) \cap {"cutensorContraction", "cutensorReduction"}
                  # {}

\* C5: after a successful construction all three mode counts are at most
\* kMaxNumModes, nothing was stored past the end of modesC_/extentC_, and an
\* equation asking for more modes fails with a ParseError.
C5_RankCeiling ==
    /\ ~oobWriteC
    /\ pc = "constructed" =>
          /\ numModesA_ <= kMaxNumModes
          /\ numModesB_ <= kMaxNumModes
          /\ numModesC_ <= kMaxNumModes
    /\ (pc # "start" /\ (\/ Len(OperandA) > kMaxNumModes
                         \/ Len(OperandB) > kMaxNumModes
                         \/ HasArrow /\ Len(OutputPart) > kMaxNumModes)) =>
          pc = "threw" /\ IsParseError

\* C6: whenever the number of non-space characters of operand A differs from
\* len(A_shape), or (with a ',') that of operand B from len(B_shape), the
\* construction ends in a ParseError exception and no object is initialized.
C6_CountMismatchRejected ==
    (pc # "start" /\ (\/ Len(OperandA) # Len(A_shape)
                      \/ HasComma /\ Len(OperandB) # Len(B_shape))) =>
        pc = "threw" /\ IsParseError /\ ~isInitialized_

\* C6 witness: an operand substring longer than kMaxNumModes + 2 met a shape
\* of exactly kMaxNumModes + 2 entries, and the construction threw.
C6_Witness ==
    /\ pc = "threw"
    /\ Len(OperandA) > kMaxNumModes + 2
    /\ Len(A_shape) = kMaxNumModes + 2
    /\ error = "too many modes in first operand."

\* C7: getOutputShape() has one entry per output mode, and entry p is the
\* extent of the first position of operand A holding that mode, or, when A
\* has none, of the first such position of operand B.
C7_OutputShapeLookup ==
    ret.op = "getOutputShape" =>
        /\ ret.status = "ok"
        /\ Len(ret.value) = Len(OutputModes)
        /\ \A p \in 1..Len(OutputModes) :
              LET c == OutputModes[p]
              IN  IF c \in Range(OperandA)
                  THEN ret.value[p] = A_shape[FirstPos(OperandA, c)]
                  ELSE /\ c \in Range(OperandB)
                       /\ ret.value[p] = B_shape[FirstPos(OperandB, c)]

\* C8: once constructed, no member call changes the object's mode lists,
\* extents, strides, mode counts or initialized flag, and all calls of
\* getOutputShape() return one and the same value, before and after execute.
C8_CallsLeaveObjectUnchanged ==
    [][pc = "constructed" =>
          /\ objVars' = objVars
          /\ pc' = pc
          /\ \A x, y \in shapeSeen' :
                x.status = y.status /\ x.value = y.value]_vars

\* C8 witness: getOutputShape() was called before and after execute() on an
\* object with a non-empty, fully resolved output shape.
C8_Witness ==
    /\ ret.op = "getOutputShape" /\ ret.status = "ok" /\ numModesC_ > 0
    /\ unassignedC = {} /\ ~oobWriteC /\ ~oobReadStrides
    /\ \E x, y \in shapeSeen : x.afterExecute /\ ~y.afterExecute

\* C9: CreateCuTensorHandle runs at most once, whatever the interleaving and
\* also when attaching the plan cache fails, and every returning call yields
\* the same address.
C9_HandleCreatedOnce ==
    /\ createCount <= 1
    /\ \A t \in Threads : got[t] \subseteq {"&handle"}

\* C10: the operand descriptors hold the operand's non-space symbols, the
\* caller's shape and the caller's strides unchanged, and no stride is read
\* past the end of the sequence the caller passed.  (Objects whose operand
\* arrays were overwritten by stores past modesC_/extentC_ are C5's subject
\* and are left out here.)
C10_OperandPassThrough ==
    /\ ~oobReadStrides
    /\ (pc = "constructed" /\ ~oobWriteC) =>
          /\ modesA_ = OperandA /\ extentA_ = A_shape /\ stridesA_ = A_strides
          /\ HasComma =>
                /\ modesB_ = OperandB /\ extentB_ = B_shape
                /\ stridesB_ = B_strides

====
